---- MODULE Spec2Model ----
(***************************************************************************)
(* Model of conductor_sdk.publisher.ResultsPublisher: several publishers,  *)
(* each a process of its own, append records to the one results.json       *)
(* object of a request, guarded by the store's generation preconditions.   *)
(*                                                                         *)
(* The store appears through the calls the publisher makes on its blob     *)
(* handle, each one atomic step of the model:                              *)
(*   download_as_text()   the object's current content, or NotFound;       *)
(*   reload()             the handle's generation becomes the object's     *)
(*                        current generation ("Refresh generation for      *)
(*                        safe conditional write", publisher.py line 64);  *)
(*   upload_from_string(payload, if_generation_match=g)                    *)
(*                        writes a new generation when g is the object's   *)
(*                        generation (g = 0: when there is no object),     *)
(*                        and raises PreconditionFailed otherwise.         *)
(* What _publish computes between two store calls is part of the step of   *)
(* the store call before it; the object is never deleted.                  *)
(*                                                                         *)
(* A second part models conductor_sdk.context._Ctx._resolve_under_data,    *)
(* which finds an input file by its exact path or by its base name, from   *)
(* the mounted file system (offline) or from a listing of the bucket.      *)
(***************************************************************************)
EXTENDS Integers, Sequences, FiniteSets, TLC

\* ---------------------------------------------------------------- bounds
NumPublishers == 2

\* publish calls the callers make, all publishers together
MaxCalls == 2

\* calls made again after they lost a race, all publishers together
MaxRetries == 1

\* publish calls that offline publishers make, all of them together
MaxOfflineCalls == 3

Publishers == 1..NumPublishers

\* ------------------------------------------------------------ data model
Categories == {"figures", "tables", "artifacts"}

\* the order in which _next_id walks the categories
CategoryOrder == <<"figures", "tables", "artifacts">>

ReservedFields == {"id", "path", "title", "desc", "created_at"}

\* "no extra keyword arguments": publish_* passes `extra or None`
NoExtra == <<>>

EmptyDoc == [c \in Categories |-> <<>>]

\* bucket name and request root of every publisher (they share one catalog)
bucket_name == <<"b">>
request_root == <<"r">>

\* The caller's arguments (rel, title, description, **extra) a call may carry.
PublishArgs ==
  { [rel |-> <<"a">>,      title |-> "",  description |-> "",  extra |-> NoExtra],
    [rel |-> <<"/", "a">>, title |-> "t", description |-> "d",
     extra |-> [id |-> 7, note |-> "n"]] }

\* ------------------------------------------------------- pure functions
RECURSIVE lstrip(_)
lstrip(rel) ==
  IF rel # <<>> /\ Head(rel) = "/" THEN lstrip(Tail(rel)) ELSE rel

FormatPath(rel) == bucket_name \o <<"/">> \o request_root \o <<"/">> \o lstrip(rel)

\* json.dumps / json.loads: a payload is text; text that json.dumps wrote
\* parses back to the document it was written from, other text does not parse.
Dumps(doc) == [text |-> "json", value |-> doc]

Garbage == [text |-> "garbage", value |-> <<>>]

NoData == [text |-> "none", value |-> <<>>]

\* json_loads with a fault: text that does not parse reads as the empty document
json_loads_lenient(data) ==
  IF data.text = "json" THEN [raised |-> FALSE, value |-> data.value]
                        ELSE [raised |-> FALSE, value |-> [c \in Categories |-> <<>>]]

\* json.loads(data): the value, or raised = TRUE for json.JSONDecodeError
json_loads(data) ==
  IF data.text = "json" THEN [raised |-> FALSE, value |-> data.value]
                        ELSE [raised |-> TRUE, value |-> <<>>]

\* doc.get(k, [])
DocGet(doc, k) == IF k \in DOMAIN doc THEN doc[k] ELSE <<>>

\* int(x.get("id", 0))
RecordId(x) == IF "id" \in DOMAIN x THEN x["id"] ELSE 0

\* the list `ids` of _next_id, as the set of its values
DocIds(doc) ==
  UNION { { RecordId(DocGet(doc, k)[j]) : j \in 1..Len(DocGet(doc, k)) } :
            k \in Categories }

Max(S) == CHOOSE m \in S : \A n \in S : n <= m

\* next_id with a fault: only the ids of the figures are looked at
next_id_figures_only(doc) ==
  LET ids == { RecordId(DocGet(doc, "figures")[j]) : j \in 1..Len(DocGet(doc, "figures")) }
  IN  IF ids # {} THEN (CHOOSE m \in ids : \A n \in ids : n <= m) + 1 ELSE 1

next_id(doc) == IF DocIds(doc) # {} THEN Max(DocIds(doc)) + 1 ELSE 1

\* the record _publish builds: the reserved fields, then item.update(extra)
BuildItem(id, a, created_at) ==
  LET item == [id |-> id, path |-> FormatPath(a.rel), title |-> a.title,
               desc |-> a.description, created_at |-> created_at]
  IN  IF DOMAIN a.extra # {} THEN a.extra @@ item ELSE item

\* AppendItem with a fault: the record is put in front of the sequence
AppendItem_InFront(doc, cat, item) ==
  [k \in DOMAIN doc \cup {cat} |->
     IF k = cat THEN <<item>> \o (IF k \in DOMAIN doc THEN doc[k] ELSE <<>>) ELSE doc[k]]

\* AppendItem with a fault: the other categories are written empty
AppendItem_OthersEmptied(doc, cat, item) ==
  [k \in DOMAIN doc \cup {cat} |->
     IF k = cat THEN (IF k \in DOMAIN doc THEN doc[k] ELSE <<>>) \o <<item>> ELSE <<>>]

\* doc.setdefault(cat, []).append(item)
AppendItem(doc, cat, item) ==
  [k \in DOMAIN doc \cup {cat} |->
     IF k = cat THEN Append(DocGet(doc, cat), item) ELSE doc[k]]

\* ------------------------------------------------------------ the store
AbsentObject == [exists |-> FALSE, generation |-> 0, data |-> NoData]

\* PreconditionHolds with a fault: the creating upload is not conditional
PreconditionHolds_UnconditionalCreate(obj, g) ==
  IF g = 0 THEN TRUE ELSE obj.exists /\ obj.generation = g

\* blob.upload_from_string(payload, if_generation_match=g): g = 0 asks that
\* the object does not exist, any other g that its generation is g.
PreconditionHolds(obj, g) ==
  IF g = 0 THEN ~obj.exists ELSE obj.exists /\ obj.generation = g

upload_from_string(obj, payload, g) ==
  IF PreconditionHolds(obj, g)
  THEN [ok |-> TRUE,
        obj |-> [exists |-> TRUE, generation |-> obj.generation + 1, data |-> payload]]
  ELSE [ok |-> FALSE, obj |-> obj]

\* a record some earlier run left in the catalog
OldRecord == BuildItem(1, [rel |-> <<"o">>, title |-> "", description |-> "",
                           extra |-> NoExtra], 0)

StoredObject(data) == [exists |-> TRUE, generation |-> 1, data |-> data]

\* What the catalog object may hold when the publishers start.
InitialObjects ==
  [ absent  |-> AbsentObject,
    valid   |-> StoredObject(Dumps(AppendItem(EmptyDoc, "figures", OldRecord))),
    garbage |-> StoredObject(Garbage),
    \* JSON, but no CatalogDocument: no "artifacts" key, a record without id
    invalid |-> StoredObject(Dumps([figures |-> <<OldRecord>>,
                                    tables |-> <<[path |-> FormatPath(<<"o">>)]>>])) ]

\* ---------------------------------------------------------------- state
VARIABLES
  remote,           \* the results.json object: exists, generation, data
  offline,          \* self._offline of each publisher
  pc,               \* where each publisher is in _publish
  calls,            \* publish calls started so far, by all publishers
  offline_calls,    \* those of them that offline publishers started
  retries,          \* how many of them repeat a call that lost a race
  call,             \* the number of each publisher's call in progress (or last)
  args,             \* arguments of the call in progress
  data,             \* text downloaded by _load
  data_generation,  \* history: the generation of the version that text is of
  doc, creating,    \* what _load returned (doc then gets the item appended)
  blob_generation,  \* self.blob.generation
  item,             \* the record built by _publish
  outcome,          \* how each publisher's last call ended
  attempts,         \* conditional uploads issued by the call in progress
  returned,         \* history: the calls that returned, with the record returned
  failed,           \* history: the calls whose upload failed its precondition
  sequential,       \* history: no two calls have been in progress together
  printed,          \* history: the payloads printed in offline mode, and by which call
  initial,          \* history: which InitialObjects entry the run started from
  objects,          \* names of the objects of the bucket, which the mount shows as files
  ctx_offline,      \* self._offline of the context
  resolved          \* the latest _resolve_under_data call: its argument and its result

vars == <<remote, offline, pc, calls, offline_calls, retries, call, args, data, data_generation, doc, creating, blob_generation,
          item, outcome, attempts, returned, failed, sequential, printed,
          initial, objects, ctx_offline, resolved>>

\* the variables of the context's resolver
ctx_vars == <<objects, ctx_offline, resolved>>

NoArgs == [cat |-> "figures", rel |-> <<>>, title |-> "", description |-> "",
           extra |-> NoExtra]

NoItem == <<>>

\* no _resolve_under_data call was made yet
NoResult == [rel |-> <<>>, kind |-> "none", by |-> "none", location |-> <<>>,
             text |-> "", names |-> {}]

\* a run that reads no input: the resolver is not called
ResolverUnused ==
  /\ objects = {}
  /\ ctx_offline = FALSE
  /\ resolved = NoResult

\* _publish returns or raises: its locals (and those of _load) are gone
EndCall(p) ==
  /\ pc' = [pc EXCEPT ![p] = "idle"]
  /\ data' = [data EXCEPT ![p] = NoData]
  /\ data_generation' = [data_generation EXCEPT ![p] = 0]
  /\ doc' = [doc EXCEPT ![p] = EmptyDoc]
  /\ creating' = [creating EXCEPT ![p] = FALSE]
  /\ item' = [item EXCEPT ![p] = NoItem]

InitWith(kind, off) ==
  /\ initial = kind
  /\ remote = InitialObjects[kind]
  /\ offline = off
  /\ pc = [p \in Publishers |-> "idle"]
  /\ calls = 0
  /\ offline_calls = 0
  /\ retries = 0
  /\ call = [p \in Publishers |-> 0]
  /\ args = [p \in Publishers |-> NoArgs]
  /\ data = [p \in Publishers |-> NoData]
  /\ data_generation = [p \in Publishers |-> 0]
  /\ doc = [p \in Publishers |-> EmptyDoc]
  /\ creating = [p \in Publishers |-> FALSE]
  /\ blob_generation = [p \in Publishers |-> 0]
  /\ item = [p \in Publishers |-> NoItem]
  /\ outcome = [p \in Publishers |-> "none"]
  /\ attempts = [p \in Publishers |-> 0]
  /\ returned = {}
  /\ failed = {}
  /\ sequential = TRUE
  /\ printed = {}

\* ResultsPublisher.__init__ with neither CONDUCTOR_DRY_RUN nor CONDUCTOR_LOCAL
\* set; the catalog does not exist yet, or an earlier run wrote it
Init ==
  /\ \E kind \in {"absent", "valid"} :
        InitWith(kind, [p \in Publishers |-> FALSE])
  /\ ResolverUnused

\* ResultsPublisher.__init__ in a run whose processes all have, or all have
\* not, CONDUCTOR_DRY_RUN or CONDUCTOR_LOCAL set; the catalog does not exist yet
InitOffline ==
  /\ \E off \in BOOLEAN : InitWith("absent", [p \in Publishers |-> off])
  /\ ResolverUnused

\* the same publishers, finding an object that is not a catalog document
InitCorrupt ==
  /\ \E kind \in {"garbage", "invalid"} :
        InitWith(kind, [p \in Publishers |-> FALSE])
  /\ ResolverUnused

\* --------------------------------------------------------------- actions
\* utcnow() of the call p is making: what matters of a timestamp here is that
\* it tells the calls apart, so it is the number of the call
utcnow(p) == call[p]

\* _publish lines 66-75 on the document d that _load returned
Build(p, d, c) ==
  LET it == BuildItem(next_id(d), args'[p], utcnow(p)')
  IN  /\ item' = [item EXCEPT ![p] = it]
      /\ doc' = [doc EXCEPT ![p] = AppendItem(d, args'[p].cat, it)]
      /\ creating' = [creating EXCEPT ![p] = c]
      /\ pc' = [pc EXCEPT ![p] = "save"]

\* _publish is entered and runs to the first store call of _load:
\* download_as_text, or nothing at all in offline mode
Enter(p, cat, a) ==
  /\ pc[p] = "idle"
  /\ calls' = calls + 1
  /\ offline_calls' = IF offline[p] THEN offline_calls + 1 ELSE offline_calls
  /\ call' = [call EXCEPT ![p] = calls + 1]
  /\ args' = [args EXCEPT ![p] = [cat |-> cat, rel |-> a.rel, title |-> a.title,
                                  description |-> a.description, extra |-> a.extra]]
  /\ outcome' = [outcome EXCEPT ![p] = "none"]
  /\ attempts' = [attempts EXCEPT ![p] = 0]
  /\ sequential' = (sequential /\ \A q \in Publishers : pc[q] = "idle")
  /\ IF offline[p] \/ ~remote.exists
     THEN \* offline, or gexc.NotFound: the empty document, creating
          /\ Build(p, EmptyDoc, TRUE)
          /\ UNCHANGED <<data, data_generation>>
     ELSE /\ data' = [data EXCEPT ![p] = remote.data]
          /\ data_generation' = [data_generation EXCEPT ![p] = remote.generation]
          /\ pc' = [pc EXCEPT ![p] = "load_reload"]
          /\ UNCHANGED <<doc, creating, item>>
  /\ UNCHANGED <<remote, offline, blob_generation, returned, failed, printed, initial>>
  /\ UNCHANGED ctx_vars

\* a call the publisher's caller makes
Publish(p, cat) ==
  /\ IF offline[p] THEN offline_calls < MaxOfflineCalls
                   ELSE calls - offline_calls - retries < MaxCalls
  /\ UNCHANGED retries
  /\ \E a \in PublishArgs : Enter(p, cat, a)

publish_figure(p) == Publish(p, "figures")

publish_table(p) == Publish(p, "tables")

publish_artifact(p) == Publish(p, "artifacts")

\* the caller of a call that lost the race makes the same call again
retry(p) ==
  /\ outcome[p] = "PreconditionFailed"
  /\ retries < MaxRetries
  /\ retries' = retries + 1
  /\ Enter(p, args[p].cat, args[p])

\* _load: self.blob.reload(), then json.loads(data)
load_reload(p) ==
  /\ pc[p] = "load_reload"
  /\ blob_generation' = [blob_generation EXCEPT ![p] = remote.generation]
  /\ IF ~json_loads(data[p]).raised
     THEN /\ doc' = [doc EXCEPT ![p] = json_loads(data[p]).value]
          /\ creating' = [creating EXCEPT ![p] = FALSE]
          /\ pc' = [pc EXCEPT ![p] = "publish_reload"]
          /\ UNCHANGED <<outcome, data, data_generation, item>>
     ELSE \* json.JSONDecodeError is not caught: the call ends
          /\ EndCall(p)
          /\ outcome' = [outcome EXCEPT ![p] = "JSONDecodeError"]
  /\ UNCHANGED <<remote, offline, calls, offline_calls, retries, call, args, attempts,
                 returned, failed, sequential, printed, initial,
                 objects, ctx_offline, resolved>>

\* _publish: the second self.blob.reload(), then the record is built
publish_reload(p) ==
  /\ pc[p] = "publish_reload"
  /\ blob_generation' = [blob_generation EXCEPT ![p] = remote.generation]
  /\ UNCHANGED <<remote, offline, calls, offline_calls, retries, call, args, data, data_generation,
                 outcome, attempts, returned, failed, sequential, printed, initial,
                 objects, ctx_offline, resolved>>
  /\ Build(p, doc[p], creating[p])

\* the if_generation_match that _save passes
Expected(p) == IF creating[p] THEN 0 ELSE blob_generation[p]

\* what is recorded of a call when it ends: who made it with what arguments,
\* the record built, the precondition passed, the object the upload met
\* (existence and generation), the generation it left, whether it changed
\* the object
CallRecord(p) ==
  [by |-> p, call |-> call[p], args |-> args[p], item |-> item[p],
   expected |-> Expected(p),
   met |-> [exists |-> remote.exists, generation |-> remote.generation],
   generation |-> remote'.generation,
   changed |-> (remote' # remote)]

\* save with a fault: a failed upload is answered by reading again, silently
save_retrying(p) ==
  /\ pc[p] = "save"
  /\ ~offline[p]
  /\ LET up == upload_from_string(remote, Dumps(doc[p]), Expected(p))
     IN  /\ remote' = up.obj
         /\ attempts' = [attempts EXCEPT ![p] = @ + 1]
         /\ IF up.ok
            THEN /\ EndCall(p)
                 /\ blob_generation' = [blob_generation EXCEPT ![p] = up.obj.generation]
                 /\ outcome' = [outcome EXCEPT ![p] = "returned"]
                 /\ returned' = returned \cup {CallRecord(p)}
            ELSE /\ pc' = [pc EXCEPT ![p] = "load_reload"]
                 /\ data' = [data EXCEPT ![p] = remote.data]
                 /\ data_generation' = [data_generation EXCEPT ![p] = remote.generation]
                 /\ UNCHANGED <<doc, creating, item, blob_generation, outcome, returned>>
  /\ UNCHANGED ctx_vars
  /\ UNCHANGED <<offline, calls, offline_calls, retries, call, args, failed, sequential, printed,
                 initial>>

\* _save, and the return of _publish
save(p) ==
  /\ pc[p] = "save"
  /\ EndCall(p)
  /\ IF offline[p]
     THEN /\ printed' = printed \cup {[by |-> p, call |-> call[p], payload |-> Dumps(doc[p])]}
          /\ outcome' = [outcome EXCEPT ![p] = "returned"]
          /\ UNCHANGED <<remote, blob_generation, attempts, failed>>
          /\ returned' = returned \cup {CallRecord(p)}
     ELSE LET up == upload_from_string(remote, Dumps(doc[p]), Expected(p))
          IN  /\ remote' = up.obj
              /\ attempts' = [attempts EXCEPT ![p] = @ + 1]
              /\ UNCHANGED printed
              /\ IF up.ok
                 THEN /\ blob_generation' = [blob_generation EXCEPT ![p] = up.obj.generation]
                      /\ outcome' = [outcome EXCEPT ![p] = "returned"]
                      /\ returned' = returned \cup {CallRecord(p)}
                      /\ UNCHANGED failed
                 ELSE \* google.api_core.exceptions.PreconditionFailed propagates
                      /\ outcome' = [outcome EXCEPT ![p] = "PreconditionFailed"]
                      /\ failed' = failed \cup {CallRecord(p)}
                      /\ UNCHANGED <<blob_generation, returned>>
  /\ UNCHANGED <<offline, calls, offline_calls, retries, call, args, sequential, initial>>
  /\ UNCHANGED ctx_vars

Next ==
  \E p \in Publishers :
     \/ publish_figure(p)
     \/ publish_table(p)
     \/ publish_artifact(p)
     \/ retry(p)
     \/ load_reload(p)
     \/ publish_reload(p)
     \/ save(p)

Spec == Init /\ [][Next]_vars

SpecCorrupt == InitCorrupt /\ [][Next]_vars

SpecOffline == InitOffline /\ [][Next]_vars

\* ------------------------------------------------ the context's resolver
\* Strings are sequences of characters; sorted() and list.sort() order them
\* by code point.
ord ==
  [c \in {"/", "a", "b", "c", "d", "m", "q", "r", "t", "x", "z"} |->
     CASE c = "/" -> 47  [] c = "a" -> 97  [] c = "b" -> 98  [] c = "c" -> 99
       [] c = "d" -> 100 [] c = "m" -> 109 [] c = "q" -> 113 [] c = "r" -> 114
       [] c = "t" -> 116 [] c = "x" -> 120 [] c = "z" -> 122]

\* s < t of two str
RECURSIVE StrLess(_, _)
StrLess(s, t) ==
  IF t = <<>> THEN FALSE
  ELSE IF s = <<>> THEN TRUE
  ELSE IF Head(s) = Head(t) THEN StrLess(Tail(s), Tail(t))
  ELSE ord[Head(s)] < ord[Head(t)]

startswith(s, prefix) ==
  Len(prefix) <= Len(s) /\ SubSeq(s, 1, Len(prefix)) = prefix

endswith(s, suffix) ==
  Len(suffix) <= Len(s) /\ SubSeq(s, Len(s) - Len(suffix) + 1, Len(s)) = suffix

\* Path.name: what follows the last "/"
name(pth) ==
  LET slashes == { i \in 1..Len(pth) : pth[i] = "/" }
  IN  IF slashes = {} THEN pth ELSE SubSeq(pth, Max(slashes) + 1, Len(pth))

\* sorted(...) and list.sort()
RECURSIVE insert(_, _)
insert(x, s) ==
  IF s = <<>> THEN <<x>>
  ELSE IF StrLess(x, Head(s)) THEN <<x>> \o s
  ELSE <<Head(s)>> \o insert(x, Tail(s))

RECURSIVE sorted(_)
sorted(s) == IF s = <<>> THEN <<>> ELSE insert(Head(s), sorted(Tail(s)))

\* ctx["mount_path"], where the bucket is mounted
mount == <<"/", "m">>

\* _Ctx.path and _Ctx.request_path
path(rel) == mount \o <<"/">> \o lstrip(rel)

request_path(rel) == path(request_root \o <<"/">> \o rel)

\* the data directory and the prefix of the blobs in it
base == path(request_root \o <<"/", "d", "a", "t", "a">>)

prefix == request_root \o <<"/", "d", "a", "t", "a", "/">>

\* The objects a bucket may hold: four under <request_root>/data/, one beside it.
ObjectNames ==
  { request_root \o <<"/">> \o f :
      f \in { <<"d", "a", "t", "a", "/", "a", "/", "x", "r">>,
              <<"d", "a", "t", "a", "/", "b", "/", "r">>,
              <<"d", "a", "t", "a", "/", "c", "/", "r">>,
              <<"d", "a", "t", "a", "/", "r", "/", "q">>,
              <<"r">> } }

\* The paths callers ask for.
Requests ==
  { <<"r">>,
    <<"d", "a", "t", "a", "/", "c", "/", "r">>,
    <<"x", "/", "r">>,
    <<"q">>,
    <<"z">> }

\* the files and the directories the mount shows
MountPaths(objs) ==
  UNION { { SubSeq(path(o), 1, i) :
              i \in { j \in 1..Len(path(o)) :
                        j = Len(path(o)) \/ path(o)[j + 1] = "/" } } : o \in objs }

\* Path.exists and Path.is_file
exists(objs, pth) == pth \in MountPaths(objs)

is_file(objs, pth) == \E o \in objs : path(o) = pth

\* base.rglob(target): the paths below dir whose name is target (the names
\* here hold no wildcard)
rglob(objs, dir, target) ==
  { p \in MountPaths(objs) : startswith(p, dir \o <<"/">>) /\ name(p) = target }

\* self._gcs.list_blobs(self.bucket_name, prefix=prefix)
list_blobs(objs, pre) == { o \in objs : startswith(o, pre) }

\* the orders in which a walk or a listing may yield a set of entries
Enumerations(S) ==
  { e \in [1..Cardinality(S) -> S] : \A x \in S : \E i \in 1..Cardinality(S) : e[i] = x }

Returned(rel, by, location) ==
  [rel |-> rel, kind |-> "returned", by |-> by, location |-> location,
   text |-> "", names |-> {}]

\* FileNotFoundError, with its text and the values formatted into it
Raised(rel, text, names) ==
  [rel |-> rel, kind |-> "FileNotFoundError", by |-> "search", location |-> <<>>,
   text |-> text, names |-> names]

\* _resolve_under_data from "2) Recursive search by filename under data/" on;
\* listing is the order in which rglob or list_blobs yields its entries
search_under_data(objs, off, listing, rel) ==
  LET direct == request_path(rel)
      target == name(rel)
      hits == sorted(SelectSeq(listing,
                LAMBDA p : is_file(objs, p) /\ name(p) = target))
      matches == sorted(SelectSeq(listing,
                   LAMBDA n : endswith(n, <<"/">> \o target) \/ endswith(n, target)))
      url == <<"g", "s", ":", "/", "/">> \o bucket_name \o <<"/">> \o prefix
               \o <<"*", "*", "/">> \o target
  IN  IF off
      THEN IF ~exists(objs, base)
           THEN Raised(rel, "Data directory not found", {base})
           ELSE IF hits = <<>>
                THEN Raised(rel, "Could not resolve", {rel, base, target})
                ELSE Returned(rel, "search", hits[1])
      ELSE IF matches = <<>>
           THEN Raised(rel, "Could not resolve", {rel, direct, url})
           ELSE Returned(rel, "search", path(matches[1]))

\* _resolve_under_data with a fault: the search goes first
resolve_under_data_search_first(objs, off, listing, rel) ==
  LET found == search_under_data(objs, off, listing, rel)
  IN  IF found.kind = "returned" THEN found
      ELSE IF exists(objs, request_path(rel))
           THEN Returned(rel, "direct", request_path(rel))
           ELSE found

resolve_under_data(objs, off, listing, rel) ==
  IF exists(objs, request_path(rel))
  THEN Returned(rel, "direct", request_path(rel))
  ELSE search_under_data(objs, off, listing, rel)

\* what rglob or list_blobs may yield for a request, in each of its orders
Listings(rel) ==
  IF ctx_offline THEN Enumerations(rglob(objects, base, name(rel)))
                 ELSE Enumerations(list_blobs(objects, prefix))

\* the variables of the publishers
publisher_vars ==
  <<remote, offline, pc, calls, offline_calls, retries, call, args, data,
    data_generation, doc, creating, blob_generation, item, outcome, attempts,
    returned, failed, sequential, printed, initial>>

\* read_csv, read_parquet, open_bytes, open_text: each resolves rel first
Resolve(rel) ==
  /\ \E listing \in Listings(rel) :
        resolved' = resolve_under_data(objects, ctx_offline, listing, rel)
  /\ UNCHANGED <<objects, ctx_offline>>
  /\ UNCHANGED publisher_vars

\* _Ctx.__init__, online or offline, on a bucket holding some of the objects
InitResolver ==
  /\ \E off \in BOOLEAN :
        /\ InitWith("absent", [p \in Publishers |-> off])
        /\ ctx_offline = off
  /\ objects \in SUBSET ObjectNames
  /\ resolved = NoResult

NextResolver == \E rel \in Requests : Resolve(rel)

SpecResolver == InitResolver /\ [][NextResolver]_vars

\* ------------------------------------------------- what the claims speak of
\* the document a reader finds in the catalog object
DocumentOf(obj) ==
  IF obj.exists /\ ~json_loads(obj.data).raised THEN json_loads(obj.data).value
                                                 ELSE EmptyDoc

RemoteDoc == DocumentOf(remote)

InitialDoc == DocumentOf(InitialObjects[initial])

DocRecords(d) ==
  UNION { { DocGet(d, k)[j] : j \in 1..Len(DocGet(d, k)) } : k \in Categories }

NumRecords(d) ==
  Len(DocGet(d, "figures")) + Len(DocGet(d, "tables")) + Len(DocGet(d, "artifacts"))

Quiescent == \A p \in Publishers : pc[p] = "idle"

HasReservedExtra(a) == DOMAIN a.extra \cap ReservedFields # {}

\* C1: no lost updates. Once no call is in progress, every record a successful
\* call returned is in the remote document, and the document holds one record
\* per successful call beside those it started with.
C1_NoLostUpdates ==
  Quiescent =>
    /\ \A r \in returned : r.item \in DocRecords(RemoteDoc)
    /\ NumRecords(RemoteDoc) = NumRecords(InitialDoc) + Cardinality(returned)

\* C1 for callers that pass no reserved key in extra: it fails all the same,
\* by the write of another publisher between download_as_text and reload.
C1_NoLostUpdates_PlainCalls ==
  (Quiescent /\ \A r \in returned : ~HasReservedExtra(r.args)) =>
    \A r \in returned : r.item \in DocRecords(RemoteDoc)

\* C2: the conflict scenario. A call that lost the race (its upload failed the
\* precondition) and was made again, with no upload of another publisher since
\* the failure, has returned; the document then holds the record of the call
\* that won and the record of the repeated call, and their ids differ.
RetriedAlone(f, p) ==
  /\ f.by = p
  /\ pc[p] = "idle"
  /\ call[p] > f.call
  /\ outcome[p] # "none"
  /\ remote.generation = f.generation + (IF outcome[p] = "returned" THEN 1 ELSE 0)

C2_ConflictThenRetry ==
  \A p \in Publishers : \A f \in failed :
    RetriedAlone(f, p) =>
      /\ outcome[p] = "returned"
      /\ \A w \in returned : \A r \in returned :
           (w.generation = f.generation /\ r.by = p /\ r.call = call[p]) =>
             /\ w.item \in DocRecords(RemoteDoc)
             /\ r.item \in DocRecords(RemoteDoc)
             /\ NumRecords(RemoteDoc) = NumRecords(InitialDoc) + 2
             /\ RecordId(w.item) # RecordId(r.item)

\* C2 for callers that pass no reserved key in extra (it holds then).
C2_ConflictThenRetry_PlainCalls ==
  (\A r \in returned : ~HasReservedExtra(r.args)) => C2_ConflictThenRetry

\* C3: monotonic unique ids. From a catalog that did not exist, after N
\* successful calls made one after another, the ids in the document are
\* exactly 1..N, each once.
C3_MonotonicUniqueIds ==
  (initial = "absent" /\ sequential /\ Quiescent) =>
    /\ DocIds(RemoteDoc) = 1..Cardinality(returned)
    /\ NumRecords(RemoteDoc) = Cardinality(returned)

\* C3 for callers that pass no reserved key in extra (it holds then).
C3_MonotonicUniqueIds_PlainCalls ==
  (\A r \in returned : ~HasReservedExtra(r.args)) => C3_MonotonicUniqueIds

\* C4: ids are never reused. No two successful calls return the same id.
C4_IdsNeverReused ==
  \A r1 \in returned : \A r2 \in returned :
    r1 # r2 => RecordId(r1.item) # RecordId(r2.item)

\* C4 for callers that pass no reserved key in extra: it fails all the same.
C4_IdsNeverReused_PlainCalls ==
  (\A r \in returned : ~HasReservedExtra(r.args)) => C4_IdsNeverReused

\* C5: creation does not clobber. The upload of a call that found no object
\* fails, and leaves the object as it is, when the object exists by then; and
\* at most one upload of such calls ever succeeds.
CreatingUploads == { r \in returned : r.expected = 0 }

C5_CreationDoesNotClobber ==
  /\ \A f \in failed : (f.expected = 0 /\ f.met.exists) => ~f.changed
  /\ \A r \in returned : r.expected = 0 => ~r.met.exists
  /\ Cardinality(CreatingUploads) <= 1

\* C5's case: two calls found no object, one created it, the other's upload failed
C5_Witness ==
  /\ \E f \in failed : f.expected = 0
  /\ CreatingUploads # {}

\* C6: first publish creates. After one call on a catalog that did not exist,
\* the document holds one record, in the category of the call, with id 1.
C6_FirstPublishCreates ==
  (initial = "absent" /\ calls = 1 /\ Quiescent) =>
    \E r \in returned :
      /\ returned = {r}
      /\ remote.exists
      /\ RemoteDoc = AppendItem(EmptyDoc, r.args.cat, r.item)
      /\ RecordId(r.item) = 1

\* C6 for callers that pass no reserved key in extra (it holds then).
C6_FirstPublishCreates_PlainCalls ==
  (\A r \in returned : ~HasReservedExtra(r.args)) => C6_FirstPublishCreates

\* C7: conflicts are surfaced. A call issues one upload; when its precondition
\* fails the call ends there with PreconditionFailed, returns no record, and the
\* object and its generation are as they were.
C7_ConflictsSurfaced ==
  /\ \A p \in Publishers : attempts[p] <= 1
  /\ \A r \in returned : PreconditionHolds(r.met, r.expected)
  /\ \A f \in failed :
       /\ ~PreconditionHolds(f.met, f.expected)
       /\ ~f.changed
       /\ f.generation = f.met.generation
       /\ \A r \in returned : r.call # f.call
       /\ f.call = call[f.by] =>
            /\ pc[f.by] = "idle"
            /\ outcome[f.by] = "PreconditionFailed"
            /\ attempts[f.by] = 1

\* C7's case: an upload on an existing catalog lost the race and the call ended
C7_Witness ==
  \E p \in Publishers : \E f \in failed :
    /\ f.by = p /\ f.call = call[p] /\ f.expected # 0
    /\ outcome[p] = "PreconditionFailed" /\ pc[p] = "idle" /\ attempts[p] = 1

\* C8: an unparseable catalog fails closed. While the object holds text that
\* does not parse, every call ends in JSONDecodeError without an upload, and the
\* object stays as it was.
C8_UnparseableFailsClosed ==
  initial = "garbage" =>
    /\ remote = InitialObjects["garbage"]
    /\ returned = {}
    /\ \A p \in Publishers :
         /\ attempts[p] = 0
         /\ outcome[p] \in {"none", "JSONDecodeError"}
         /\ pc[p] \in {"idle", "load_reload"}
         /\ (pc[p] = "idle" /\ call[p] > 0) => outcome[p] = "JSONDecodeError"

\* C8's case: a call on the unparseable object has ended
C8_Witness ==
  /\ initial = "garbage"
  /\ \E p \in Publishers : outcome[p] = "JSONDecodeError"

\* C9: a schema-invalid catalog is rejected. On a document that lacks a
\* category or holds a record without id, no call returns and no upload is made.
C9_SchemaInvalidRejected ==
  initial = "invalid" =>
    /\ remote = InitialObjects[initial]
    /\ returned = {}

\* C10: reserved-field collisions are rejected. No call whose extra holds a
\* reserved key returns a record or changes the catalog; the id of a returned
\* record is the one the publisher assigned.
C10_ReservedCollisionsRejected ==
  \A r \in returned : ~HasReservedExtra(r.args)

\* C16: the expected generation matches the content read. The generation a
\* call on an existing catalog passes as precondition is the generation of the
\* version whose content it downloaded.
C16_ExpectedGenerationIsOfContentRead ==
  \A p \in Publishers :
    (pc[p] = "save" /\ ~offline[p] /\ ~creating[p]) =>
       Expected(p) = data_generation[p]

\* no call made so far was given an id in extra
NoSuppliedId ==
  /\ \A r \in returned \cup failed : "id" \notin DOMAIN r.args.extra
  /\ \A p \in Publishers : "id" \notin DOMAIN args[p].extra

\* C17: duplicate-free documents under contention. From a catalog that did not
\* exist and with no id supplied in extra, the ids of every stored document are
\* pairwise distinct over the three categories together.
C17_StoredDocumentsDuplicateFree ==
  (initial = "absent" /\ NoSuppliedId) =>
     Cardinality(DocIds(RemoteDoc)) = NumRecords(RemoteDoc)

\* C17's case: a document of several records, stored while calls raced
C17_Witness ==
  /\ initial = "absent" /\ NoSuppliedId
  /\ ~sequential
  /\ NumRecords(RemoteDoc) >= 2

\* C18: append preserves the rest of the document. The document a successful
\* upload writes is the document the call read, with the call's record added at
\* the end of the sequence of its category and nothing else changed.
DocumentRead(p) == IF creating[p] THEN EmptyDoc ELSE json_loads(data[p]).value

C18_AppendPreservesDocument ==
  [][\A p \in Publishers :
       (pc[p] = "save" /\ pc'[p] = "idle" /\ ~offline[p] /\ remote' # remote) =>
          /\ DOMAIN DocumentOf(remote') = Categories
          /\ \A k \in Categories :
               DocumentOf(remote')[k] =
                 IF k = args[p].cat THEN Append(DocumentRead(p)[k], item[p])
                                    ELSE DocumentRead(p)[k]]_vars

\* C18's case: a record was appended to a document that held records in the
\* same and in another category
C18_Witness ==
  \E r \in returned :
    /\ r.generation = remote.generation
    /\ r.expected # 0
    /\ Len(RemoteDoc[r.args.cat]) >= 2
    /\ \E k \in Categories \ {r.args.cat} : Len(RemoteDoc[k]) >= 1

\* C20: ids increase in publish order within a category. From a catalog that
\* did not exist and with no id supplied in extra, in every stored document the
\* ids of each category increase strictly from first to last, and the record
\* appended last is the last of its category and holds the greatest id.
StrictlyIncreasing(seq) ==
  \A i \in 1..Len(seq) : \A j \in 1..Len(seq) :
     i < j => RecordId(seq[i]) < RecordId(seq[j])

C20_IdsIncreaseWithinCategory ==
  (initial = "absent" /\ NoSuppliedId) =>
     /\ \A k \in Categories : StrictlyIncreasing(RemoteDoc[k])
     /\ \A r \in returned :
          r.generation = remote.generation =>
            /\ RemoteDoc[r.args.cat][Len(RemoteDoc[r.args.cat])] = r.item
            /\ RecordId(r.item) = Max(DocIds(RemoteDoc))

\* C20's case: a category holds two records and another category a third
C20_Witness ==
  /\ initial = "absent" /\ NoSuppliedId
  /\ \E k \in Categories : Len(RemoteDoc[k]) >= 2
  /\ NumRecords(RemoteDoc) >= 2

\* the calls publisher p has returned from
CallsOf(p) == { r \in returned : r.by = p }

\* a set of calls as the sequence in which they were made
RECURSIVE InOrder(_)
InOrder(R) ==
  IF R = {} THEN <<>>
  ELSE LET first == CHOOSE r \in R : \A q \in R : r.call <= q.call
       IN  <<first>> \o InOrder(R \ {first})

\* the document online publishing makes of document d by the calls rs, made
\* one after another by a publisher that is alone
RECURSIVE PublishedOnline(_, _)
PublishedOnline(d, rs) ==
  IF rs = <<>> THEN d
  ELSE PublishedOnline(
         AppendItem(d, Head(rs).args.cat,
                    BuildItem(next_id(d), Head(rs).args, Head(rs).call)),
         Tail(rs))

\* a document without the created_at of its records
WithoutCreatedAt(d) ==
  [k \in DOMAIN d |->
     [i \in 1..Len(d[k]) |->
        [f \in DOMAIN d[k][i] \ {"created_at"} |-> d[k][i][f]]]]

\* the document the latest call of offline publisher p surfaced
Surfaced(p) ==
  LET mine == { pr \in printed : pr.by = p }
      last == CHOOSE pr \in mine : \A q \in mine : q.call <= pr.call
  IN  last.payload.value

\* C11: offline and online publishing agree on the document. Three calls, one
\* per category, made one after another offline yield the document that the
\* same calls make online of a catalog that did not exist, created_at aside.
C11_OfflineOnlineSameDocument ==
  \A p \in Publishers :
    ( /\ offline[p] /\ pc[p] = "idle"
      /\ Cardinality(CallsOf(p)) = 3
      /\ { r.args.cat : r \in CallsOf(p) } = Categories ) =>
       WithoutCreatedAt(Surfaced(p)) =
         WithoutCreatedAt(PublishedOnline(EmptyDoc, InOrder(CallsOf(p))))

\* C19: offline mode never touches the store. An offline publisher reads and
\* writes nothing remote, and each of its calls returns a record of id 1 and
\* surfaces a document of that one record.
C19_OfflineNeverTouchesStore ==
  /\ \A p \in Publishers :
       offline[p] => (data[p] = NoData /\ blob_generation[p] = 0)
  /\ (\A p \in Publishers : offline[p]) => remote = InitialObjects[initial]
  /\ \A r \in returned :
       offline[r.by] =>
         /\ ~r.changed
         /\ RecordId(r.item) = 1
         /\ \E pr \in printed :
              /\ pr.by = r.by /\ pr.call = r.call
              /\ NumRecords(pr.payload.value) = 1
              /\ DocRecords(pr.payload.value) = {r.item}

\* C19 for the calls that pass no id in extra
C19_OfflineNeverTouchesStore_PlainCalls ==
  /\ \A p \in Publishers :
       offline[p] => (data[p] = NoData /\ blob_generation[p] = 0)
  /\ (\A p \in Publishers : offline[p]) => remote = InitialObjects[initial]
  /\ \A r \in returned :
       offline[r.by] =>
         /\ ~r.changed
         /\ "id" \notin DOMAIN r.args.extra => RecordId(r.item) = 1
         /\ \E pr \in printed :
              /\ pr.by = r.by /\ pr.call = r.call
              /\ NumRecords(pr.payload.value) = 1
              /\ DocRecords(pr.payload.value) = {r.item}

\* the entries under <request_root>/data/ whose last segment is the base name
\* of the path asked for
BaseNameEntries ==
  { o \in list_blobs(objects, prefix) : name(o) = name(resolved.rel) }

Least(S) == CHOOSE x \in S : \A y \in S : x = y \/ StrLess(x, y)

Called == resolved.kind # "none"

ExactMatch == exists(objects, request_path(resolved.rel))

Contains(s, part) ==
  \E i \in 0..(Len(s) - Len(part)) : SubSeq(s, i + 1, i + Len(part)) = part

\* C12: the resolver's backends agree. With no exact match, online and offline
\* both select the least full path among the entries whose last segment is the
\* base name asked for, and both fail when there is no such entry.
C12_BackendsAgree ==
  (Called /\ ~ExactMatch) =>
     IF BaseNameEntries = {}
     THEN resolved.kind = "FileNotFoundError"
     ELSE /\ resolved.kind = "returned"
          /\ resolved.location = path(Least(BaseNameEntries))

\* C13: the resolver's tie-break. With no exact match and two or more files of
\* the base name under data/, the least full path among them is returned, in
\* whichever order the entries are enumerated.
C13_TieBreak ==
  (Called /\ ~ExactMatch /\ Cardinality(BaseNameEntries) >= 2) =>
     /\ resolved.kind = "returned"
     /\ resolved.location = path(Least(BaseNameEntries))

\* C13 for the offline resolver
C13_TieBreak_Offline ==
  (Called /\ ctx_offline /\ ~ExactMatch /\ Cardinality(BaseNameEntries) >= 2) =>
     /\ resolved.kind = "returned"
     /\ resolved.location = path(Least(BaseNameEntries))

\* C14: the exact path goes first. A path that exists under the request root
\* is returned as it is, without a search, whatever else has its base name.
C14_ExactPathFirst ==
  (Called /\ ExactMatch) =>
     /\ resolved.kind = "returned"
     /\ resolved.by = "direct"
     /\ resolved.location = request_path(resolved.rel)

\* C14's case: the exact path was returned though an entry of the same base
\* name sorts before it
C14_Witness ==
  /\ Called /\ ExactMatch
  /\ resolved.kind = "returned"
  /\ \E o \in BaseNameEntries : StrLess(path(o), resolved.location)

\* C15: not found. A path that does not exist and whose base name is nowhere
\* under data/ makes the resolver fail, online and offline, with an error that
\* names the direct path tried and the root or prefix searched.
C15_NotFound ==
  (Called /\ ~ExactMatch /\ BaseNameEntries = {}) =>
     /\ resolved.kind = "FileNotFoundError"
     /\ \E n \in resolved.names : Contains(n, request_path(resolved.rel))
     /\ \E n \in resolved.names : Contains(n, prefix) \/ Contains(n, base)

====
